---------------------------- MODULE Spec2Model ----------------------------
(***************************************************************************)
(* VengeanceUI MCP server: the in-memory component cache (loadComponents), *)
(* the GitHub crawler (loadComponentsFromGitHub and                        *)
(* fetchComponentsFromDirectory), the metadata extractor                   *)
(* (fetchComponentMetadata and the extract* functions), the search ranker  *)
(* (search_components), get_component_code and getCategories.              *)
(*                                                                         *)
(* Strings the code inspects character by character (file names, queries,  *)
(* record fields) are sequences of one-character strings.  Repository      *)
(* paths are only ever compared for equality and are plain strings.        *)
(***************************************************************************)
EXTENDS Integers, Sequences, FiniteSets, TLC

VARIABLES
    \* ---- server.ts module state (lines 21-24) and the event loop
    componentsCache,    \* let componentsCache: ComponentMetadata[]
    lastCacheUpdate,    \* let lastCacheUpdate
    clock,              \* the value Date.now() returns, in minutes
    calls,              \* the loadComponents calls suspended at their await
    response,           \* the last response a tool handler returned
    connected,          \* main() got past its pre-load and called server.connect
    crawlSeq,           \* number of recrawls started so far
    cacheWriter,        \* history: the recrawl whose result componentsCache holds (0: none)
    stampWriter,        \* history: the recrawl whose call wrote lastCacheUpdate (0: none)
    installedAt,        \* history: the clock when componentsCache was last assigned
    \* ---- one run of loadComponentsFromGitHub
    crawlPc,            \* "start", "searched" (or "searching", "root"), "returned"
    components,         \* its local `components`
    failed1,            \* history: requests that failed while the search paths were crawled
    failed2,            \* history: requests that failed during the root fallback
    rootScans,          \* history: number of listings of the repository root
    \* ---- one run of the search_components handler
    catalog,            \* what loadComponents() returned to the handler
    query,              \* params.query
    limit,              \* params.limit (<<>> when absent, <<n>> when given)
    searchOut,          \* topResults
    \* ---- one run of fetchComponentMetadata's extraction on a downloaded file
    itemName,           \* item.name
    code,               \* codeResponse.data
    extracted,          \* the record it returns (<<>> before the run)
    \* ---- one run of the get_component_code and list_categories handlers
    componentName,      \* params.component_name
    codeOut,            \* the response of get_component_code
    categoriesOut,      \* what getCategories returned to list_categories
    \* ---- loadComponentsFromGitHub request by request
    frames,             \* the activations of fetchComponentsFromDirectory, innermost last
    awaiting,           \* the remote request the crawl is suspended on
    searchIdx,          \* the index of `path` in `for (const path of searchPaths)`
    hung,               \* the requests the remote side never answers
    failures            \* history: number of requests that failed in this crawl

vars == <<componentsCache, lastCacheUpdate, clock, calls, response, connected,
          crawlSeq, cacheWriter, stampWriter, installedAt,
          crawlPc, components, failed1, failed2, rootScans,
          catalog, query, limit, searchOut,
          itemName, code, extracted,
          componentName, codeOut, categoriesOut,
          frames, awaiting, searchIdx, hung, failures>>

cacheVars == <<componentsCache, lastCacheUpdate, clock, calls, response, connected,
               crawlSeq, cacheWriter, stampWriter, installedAt>>
crawlVars == <<crawlPc, components, failed1, failed2, rootScans>>
searchVars == <<catalog, query, limit, searchOut>>
extractVars == <<itemName, code, extracted>>
toolVars == <<componentName, codeOut, categoriesOut>>
stepVars == <<frames, awaiting, searchIdx, hung, failures>>

-----------------------------------------------------------------------------
(* JavaScript string primitives the code uses.                             *)

Range(s) == {s[i] : i \in 1..Len(s)}

\* String.prototype.startsWith
StartsWith(s, p) == Len(p) <= Len(s) /\ SubSeq(s, 1, Len(p)) = p

\* String.prototype.endsWith
EndsWith(s, p) == Len(p) <= Len(s) /\ SubSeq(s, Len(s) - Len(p) + 1, Len(s)) = p

\* String.prototype.includes
Includes(s, p) == \E i \in 0..(Len(s) - Len(p)) : SubSeq(s, i + 1, i + Len(p)) = p

\* the characters \s matches and trim() strips
isSpace(c) == c \in {" ", "\n", "\t", "\r"}

-----------------------------------------------------------------------------
(* The remote repository: what GET /repos/.../contents/<path> answers when *)
(* the request succeeds.  A path that is not listed here does not exist.   *)

Dir(name, path) == [type |-> "dir", name |-> name, path |-> path, download_url |-> "null", size |-> 0]
File(name, path, size) == [type |-> "file", name |-> name, path |-> path, download_url |-> "url", size |-> size]

Remote ==
    [p \in {"", "registry", "registry/new-york", "registry/new-york/ui", "src", "src/components"} |->
       CASE p = "" ->
              << Dir(<<"r","e","g","i","s","t","r","y">>, "registry"),
                 Dir(<<"s","r","c">>, "src"),
                 File(<<"A","p","p",".","t","s","x">>, "App.tsx", 3) >>
         [] p = "registry" ->
              << Dir(<<"n","e","w","-","y","o","r","k">>, "registry/new-york") >>
         [] p = "registry/new-york" ->
              << Dir(<<"u","i">>, "registry/new-york/ui"),
                 File(<<"B","t","n",".","t","s","x">>, "registry/new-york/Btn.tsx", 7),
                 File(<<"C","a","r","d",".","j","s">>, "registry/new-york/Card.js", 5) >>
         [] p = "registry/new-york/ui" ->
              << File(<<"B","t","n",".","t","s">>, "registry/new-york/ui/Btn.ts", 2),
                 File(<<"B","t","n",".","t","e","s","t",".","t","s">>, "registry/new-york/ui/Btn.test.ts", 4) >>
         [] p = "src" ->
              << Dir(<<"c","o","m","p","o","n","e","n","t","s">>, "src/components") >>
         [] p = "src/components" ->
              << File(<<"_","x",".","j","s">>, "src/components/_x.js", 1),
                 File(<<"N","a","v",".","s","p","e","c",".","j","s","x">>, "src/components/Nav.spec.jsx", 1),
                 File(<<"N","a","v",".","s","t","o","r","i","e","s",".","j","s">>, "src/components/Nav.stories.js", 1),
                 File(<<"a",".","m","d">>, "src/components/a.md", 1),
                 [type |-> "symlink", name |-> <<"l","n","k",".","t","s">>, path |-> "src/components/lnk.ts",
                  download_url |-> "url", size |-> 1],
                 [type |-> "file", name |-> <<"R","a","w",".","t","s","x">>, path |-> "src/components/Raw.tsx",
                  download_url |-> "null", size |-> 1],
                 File(<<"N","a","v",".","j","s","x">>, "src/components/Nav.jsx", 6) >> ]

-----------------------------------------------------------------------------
(* componentLoader: the crawler.  A call either returns a value or throws. *)
(* `fail` is the set of paths whose remote request (the directory listing  *)
(* of a directory, the content download of a file) fails during the crawl. *)

Throw == [threw |-> TRUE, value |-> <<>>]
Return(v) == [threw |-> FALSE, value |-> v]

\* const searchPaths = ["registry/new-york", "src/components"]
searchPaths == <<"registry/new-york", "src/components">>

\* filename.replace(/\.(tsx?|jsx?)$/, "")
extractComponentName(filename) ==
    IF EndsWith(filename, <<".","t","s","x">>) \/ EndsWith(filename, <<".","j","s","x">>)
    THEN SubSeq(filename, 1, Len(filename) - 4)
    ELSE IF EndsWith(filename, <<".","t","s">>) \/ EndsWith(filename, <<".","j","s">>)
    THEN SubSeq(filename, 1, Len(filename) - 3)
    ELSE filename

\* item.name.endsWith(".tsx") || ... || item.name.endsWith(".js")
isComponentFile(name) ==
    \/ EndsWith(name, <<".","t","s","x">>)
    \/ EndsWith(name, <<".","t","s">>)
    \/ EndsWith(name, <<".","j","s","x">>)
    \/ EndsWith(name, <<".","j","s">>)

\* the condition of the `continue` that skips test files, stories and private files
skipFile(name) ==
    \/ ~isComponentFile(name)
    \/ Includes(name, <<".","t","e","s","t",".">>)
    \/ Includes(name, <<".","s","p","e","c",".">>)
    \/ Includes(name, <<".","s","t","o","r","i","e","s",".">>)
    \/ StartsWith(name, <<"_">>)

\* fetchComponentMetadata: null (the empty sequence) without a download_url, throws
\* when the download fails, else the record (a one-element sequence) with the fields
\* derived from the file name and the item
fetchComponentMetadata(item, fail) ==
    IF item.download_url = "null" THEN Return(<<>>)
    ELSE IF item.path \in fail THEN Throw
    ELSE Return(<<[name |-> extractComponentName(item.name), path |-> item.path, size |-> item.size]>>)

RECURSIVE fetchComponentsFromDirectory(_, _)
RECURSIVE visitItem(_, _)
RECURSIVE forItems(_, _, _, _)

\* a variant of visitItem that recurses into a subdirectory with no try/catch
visitItemNoCatch(item, fail) ==
    IF item.type = "dir" THEN fetchComponentsFromDirectory(item.path, fail)
    ELSE IF item.type # "file" THEN Return(<<>>)
    ELSE IF skipFile(item.name) THEN Return(<<>>)
    ELSE LET m == fetchComponentMetadata(item, fail)
         IN  IF m.threw THEN Return(<<>>)
             ELSE IF m.value = <<>> THEN Return(<<>>) ELSE Return(m.value)

\* one iteration of `for (const item of response.data)`: what it pushes
visitItem(item, fail) ==
    IF item.type = "dir"
    THEN LET sub == fetchComponentsFromDirectory(item.path, fail)
         IN  IF sub.threw THEN Return(<<>>) ELSE Return(sub.value)
    ELSE IF item.type # "file" THEN Return(<<>>)
    ELSE IF skipFile(item.name) THEN Return(<<>>)
    ELSE LET m == fetchComponentMetadata(item, fail)
         IN  IF m.threw THEN Return(<<>>)
             ELSE IF m.value = <<>> THEN Return(<<>>) ELSE Return(m.value)

\* the loop over response.data from item i on, `acc` being `components` so far
forItems(items, i, acc, fail) ==
    IF i > Len(items) THEN Return(acc)
    ELSE LET step == visitItem(items[i], fail)
         IN  IF step.threw THEN Throw
             ELSE forItems(items, i + 1, acc \o step.value, fail)

\* fetchComponentsFromDirectory(path): throws when the listing fails
fetchComponentsFromDirectory(path, fail) ==
    IF path \in fail \/ path \notin DOMAIN Remote THEN Throw
    ELSE forItems(Remote[path], 1, <<>>, fail)

RECURSIVE searchPathsLoop(_, _, _)
\* `for (const path of searchPaths)` with its inner try/catch, from path i on
searchPathsLoop(i, acc, fail) ==
    IF i > Len(searchPaths) THEN acc
    ELSE LET dirComponents == fetchComponentsFromDirectory(searchPaths[i], fail)
         IN  searchPathsLoop(i + 1, IF dirComponents.threw THEN acc ELSE acc \o dirComponents.value, fail)

\* `if (components.length === 0)` taken: the scan of "" under the outer try/catch
rootFallback(fail) ==
    LET rootComponents == fetchComponentsFromDirectory("", fail)
    IN  IF rootComponents.threw THEN <<>> ELSE rootComponents.value

\* loadComponentsFromGitHub(): fail1 are the requests failing while the search
\* paths are crawled, fail2 those failing during the root fallback
loadComponentsFromGitHub(fail1, fail2) ==
    LET found == searchPathsLoop(1, <<>>, fail1)
    IN  IF Len(found) = 0 THEN rootFallback(fail2) ELSE found

-----------------------------------------------------------------------------
(* The requests a crawl can make.                                          *)

RECURSIVE Under(_)
\* the directory `path` and every directory and downloadable file below it
Under(path) ==
    {path} \cup UNION { IF it.type = "dir" THEN Under(it.path)
                        ELSE IF it.type = "file" /\ ~skipFile(it.name) /\ it.download_url # "null"
                             THEN {it.path} ELSE {}
                        : it \in Range(Remote[path]) }

\* Under and, below, AllFiles, tabulated
Subtree == [d \in DOMAIN Remote |-> Under(d)]

Requests1 == UNION {Subtree[searchPaths[i]] : i \in 1..Len(searchPaths)}
Requests2 == Subtree[""]

-----------------------------------------------------------------------------
(* Initial values of the three groups of variables.                        *)

\* const CACHE_DURATION = 5 * 60 * 1000, in minutes
CACHE_DURATION == 5

\* loadComponents calls that can be suspended at the same time
MaxCalls == 2
\* recrawls started in one run of the server
MaxCrawls == 3
\* minutes the clock advances after startup
MaxElapsed == 5

NoResponse == [kind |-> "none", source |-> "none", isError |-> FALSE, count |-> 0, allFailed |-> FALSE]

\* lines 22-23; Date.now() at startup is far more than CACHE_DURATION after 0
CacheInit ==
    /\ componentsCache = <<>>
    /\ lastCacheUpdate = 0
    /\ clock = CACHE_DURATION
    /\ calls = {}
    /\ response = NoResponse
    /\ connected = FALSE
    /\ crawlSeq = 0
    /\ cacheWriter = 0
    /\ stampWriter = 0
    /\ installedAt = 0

CrawlInit ==
    /\ crawlPc = "start"
    /\ components = <<>>
    /\ failed1 = {}
    /\ failed2 = {}
    /\ rootScans = 0

SearchInit ==
    /\ catalog = <<>>
    /\ query = <<>>
    /\ limit = <<>>
    /\ searchOut = [text |-> "not run", scored |-> <<>>, topResults |-> <<>>]

ExtractInit ==
    /\ itemName = <<>>
    /\ code = <<>>
    /\ extracted = <<>>

NoToolResponse == [text |-> "not run", suggestions |-> <<>>, component |-> <<>>]
NoCategories == [text |-> "not run", categories |-> <<>>]

ToolInit ==
    /\ componentName = <<>>
    /\ codeOut = NoToolResponse
    /\ categoriesOut = NoCategories

NoRequest == [kind |-> "none", path |-> ""]

StepInit ==
    /\ frames = <<>>
    /\ awaiting = NoRequest
    /\ searchIdx = 0
    /\ hung = {}
    /\ failures = 0

-----------------------------------------------------------------------------
(* One run of loadComponentsFromGitHub, in its two phases.  Every remote   *)
(* request of a phase fails or succeeds independently of the others.       *)

\* the loop over searchPaths, lines 541-549
SearchConfiguredPaths ==
    /\ crawlPc = "start"
    /\ \E f \in SUBSET Requests1 :
         /\ components' = searchPathsLoop(1, <<>>, f)
         /\ failed1' = f
    /\ crawlPc' = "searched"
    /\ UNCHANGED <<failed2, rootScans>>
    /\ UNCHANGED <<cacheVars, searchVars, extractVars, toolVars, stepVars>>

\* the root scanned whether or not the search paths found anything
RootFallbackUnconditional ==
    /\ crawlPc = "searched"
    /\ \E f \in SUBSET Requests2 :
         /\ components' = components \o rootFallback(f)
         /\ failed2' = f
    /\ rootScans' = rootScans + 1
    /\ crawlPc' = "returned"
    /\ UNCHANGED failed1
    /\ UNCHANGED <<cacheVars, searchVars, extractVars, toolVars, stepVars>>

\* `if (components.length === 0)` taken, lines 552-555, and the outer catch
RootFallback ==
    /\ crawlPc = "searched"
    /\ Len(components) = 0
    /\ \E f \in SUBSET Requests2 :
         /\ components' = components \o rootFallback(f)
         /\ failed2' = f
    /\ rootScans' = rootScans + 1
    /\ crawlPc' = "returned"
    /\ UNCHANGED failed1
    /\ UNCHANGED <<cacheVars, searchVars, extractVars, toolVars, stepVars>>

\* `return components` with the fallback not taken, line 557
ReturnFound ==
    /\ crawlPc = "searched"
    /\ Len(components) # 0
    /\ crawlPc' = "returned"
    /\ UNCHANGED <<components, failed1, failed2, rootScans>>
    /\ UNCHANGED <<cacheVars, searchVars, extractVars, toolVars, stepVars>>

CrawlNext == SearchConfiguredPaths \/ RootFallback \/ ReturnFound

CrawlSpecInit == CacheInit /\ CrawlInit /\ SearchInit /\ ExtractInit /\ ToolInit /\ StepInit

SpecCrawl == CrawlSpecInit /\ [][CrawlNext]_vars

-----------------------------------------------------------------------------
(* What a crawl should return, stated without the crawler: the files of    *)
(* the tree in listing order, depth first, that the crawler downloads.     *)

RECURSIVE AllFiles(_)
AllFiles(path) ==
    LET items == Remote[path]
        Walk[i \in 0..Len(items)] ==
            IF i = 0 THEN <<>>
            ELSE Walk[i - 1] \o (IF items[i].type = "dir" THEN AllFiles(items[i].path) ELSE <<items[i]>>)
    IN  Walk[Len(items)]

FilesIn == [d \in DOMAIN Remote |-> AllFiles(d)]

PathsOf(records) == [i \in 1..Len(records) |-> records[i].path]

\* the paths under `root` whose download succeeded and whose every enclosing
\* directory, from `root` down, was listed successfully
SucceededPaths(root, fail) ==
    LET keep(it) ==
            /\ it.type = "file" /\ ~skipFile(it.name) /\ it.download_url # "null"
            /\ it.path \notin fail
            /\ \A d \in DOMAIN Remote : (d \in Subtree[root] /\ it.path \in Subtree[d]) => d \notin fail
    IN  PathsOf(SelectSeq(FilesIn[root], keep))

SucceededInSearchPaths == SucceededPaths(searchPaths[1], failed1) \o SucceededPaths(searchPaths[2], failed1)

\* C7: a failed listing drops exactly its subtree and a failed download exactly
\* its file: the crawl of the search paths yields, in crawl order, the records of
\* every path that succeeded, and when that is nothing, the root scan yields the
\* records of every path that succeeded during the root scan.
CrawlKeepsSucceededPaths ==
    /\ crawlPc = "searched" => PathsOf(components) = SucceededInSearchPaths
    /\ crawlPc = "returned" =>
         PathsOf(components) = IF SucceededInSearchPaths # <<>> THEN SucceededInSearchPaths
                               ELSE SucceededPaths("", failed2)

\* a crawl in which the listing of a subdirectory and the download of one file
\* failed, and the later siblings and the second search path were still returned
CrawlKeepsSucceededPathsWitness ==
    /\ crawlPc = "returned"
    /\ "registry/new-york/ui" \in failed1
    /\ "registry/new-york/Btn.tsx" \in failed1
    /\ PathsOf(components) = <<"registry/new-york/Card.js", "src/components/Nav.jsx">>

\* C8: no two records of one crawl have the same name.
CrawlNamesUnique ==
    crawlPc = "returned" =>
        \A i, j \in 1..Len(components) : i # j => components[i].name # components[j].name

\* C18: when the search paths together yield no record the crawl lists the repository
\* root exactly once and returns what that scan finds; when a search path yields a
\* record the root is not listed; the root is never listed twice.
RootScannedOnceIffNothingFound ==
    /\ rootScans <= 1
    /\ crawlPc = "returned" =>
         /\ SucceededInSearchPaths = <<>> =>
               (rootScans = 1 /\ PathsOf(components) = SucceededPaths("", failed2))
         /\ SucceededInSearchPaths # <<>> =>
               (rootScans = 0 /\ failed2 = {} /\ PathsOf(components) = SucceededInSearchPaths)

\* both search paths failed, the root was listed once and its scan found records
RootScannedOnceWitness ==
    /\ crawlPc = "returned"
    /\ {searchPaths[1], searchPaths[2]} \subseteq failed1
    /\ rootScans = 1
    /\ Len(components) > 0

-----------------------------------------------------------------------------
(* The cache: loadComponents and the handlers that call it.  A handler     *)
(* runs without interruption up to `await loadComponentsFromGitHub()` and  *)
(* again from the completion of that crawl to its return.                  *)

\* the directory listings among the requests
Listings1 == Requests1 \cap DOMAIN Remote
Listings2 == Requests2 \cap DOMAIN Remote

\* the failures of one crawl the cache is run against, all of directory listings
\* (downloads succeed): any while the search paths are crawled and then a root scan
\* that meets none, or search paths that fail altogether and any during the root scan
FailureScenarios ==
    ((SUBSET Listings1) \X {{}}) \cup ({Requests1} \X (SUBSET Listings2))

\* what one crawl hands back; allFailed: every directory listing it asked for failed
CrawlOutcomes ==
    LET outcomes == { [components |-> loadComponentsFromGitHub(s[1], s[2]),
                       allFailed  |-> (\A i \in 1..Len(searchPaths) : searchPaths[i] \in s[1]) /\ "" \in s[2]]
                      : s \in FailureScenarios }
    IN  outcomes \cap outcomes

\* the condition of line 40 with `forceRefresh &&` for `!forceRefresh &&`
cacheIsFreshNegationLost(forceRefresh, now) ==
    forceRefresh /\ Len(componentsCache) > 0 /\ (now - lastCacheUpdate) < CACHE_DURATION

\* the condition of line 40 without its forceRefresh conjunct
cacheIsFreshIgnoringForce(forceRefresh, now) ==
    Len(componentsCache) > 0 /\ (now - lastCacheUpdate) < CACHE_DURATION

\* the condition of line 40 without `componentsCache.length > 0`
cacheIsFreshWhenEmpty(forceRefresh, now) ==
    ~forceRefresh /\ (now - lastCacheUpdate) < CACHE_DURATION

\* !forceRefresh && componentsCache.length > 0 && (now - lastCacheUpdate) < CACHE_DURATION
cacheIsFresh(forceRefresh, now) ==
    ~forceRefresh /\ Len(componentsCache) > 0 /\ (now - lastCacheUpdate) < CACHE_DURATION

\* what the handler of `kind` answers once loadComponents returned `loaded`:
\* none of the handlers has an error response for a failed crawl
handlerResponse(kind, loaded, source, allFailed) ==
    [kind |-> kind, source |-> source, isError |-> FALSE, count |-> Len(loaded), allFailed |-> allFailed]

\* loadComponents up to its return of the cached array or to its await; a suspended
\* call keeps its `now`, and `id` numbers the recrawl it started
loadComponentsBegin(kind, forceRefresh) ==
    LET now == clock
    IN  IF cacheIsFresh(forceRefresh, now)
        THEN /\ response' = handlerResponse(kind, componentsCache, "cache", FALSE)
             /\ UNCHANGED <<componentsCache, lastCacheUpdate, clock, calls, connected,
                            crawlSeq, cacheWriter, stampWriter, installedAt>>
        ELSE /\ crawlSeq < MaxCrawls
             /\ Cardinality(calls) < MaxCalls
             /\ calls' = calls \cup {[kind |-> kind, now |-> now, id |-> crawlSeq + 1]}
             /\ crawlSeq' = crawlSeq + 1
             /\ UNCHANGED <<componentsCache, lastCacheUpdate, clock, response, connected,
                            cacheWriter, stampWriter, installedAt>>

\* loadComponentsResume without `lastCacheUpdate = now`
loadComponentsResumeNoStamp(call, outcome) ==
    /\ componentsCache' = outcome.components
    /\ cacheWriter' = call.id
    /\ installedAt' = clock
    /\ calls' = calls \ {call}
    /\ response' = handlerResponse(call.kind, outcome.components, "crawl", outcome.allFailed)
    /\ connected' = (connected \/ call.kind = "main")
    /\ UNCHANGED <<lastCacheUpdate, stampWriter, clock, crawlSeq>>

\* loadComponents from the completion of the crawl on (lines 45-49), and the rest
\* of the handler that awaited it
loadComponentsResume(call, outcome) ==
    /\ componentsCache' = outcome.components
    /\ lastCacheUpdate' = call.now
    /\ cacheWriter' = call.id
    /\ stampWriter' = call.id
    /\ installedAt' = clock
    /\ calls' = calls \ {call}
    /\ response' = handlerResponse(call.kind, outcome.components, "crawl", outcome.allFailed)
    /\ connected' = (connected \/ call.kind = "main")
    /\ UNCHANGED <<clock, crawlSeq>>

\* main(): await loadComponents() before server.connect
MainPreload ==
    /\ ~connected
    /\ calls = {}
    /\ loadComponentsBegin("main", FALSE)
    /\ UNCHANGED <<crawlVars, searchVars, extractVars, toolVars, stepVars>>

\* tools 1 to 6: const components = await loadComponents()
ToolCall ==
    /\ connected
    /\ loadComponentsBegin("read", FALSE)
    /\ UNCHANGED <<crawlVars, searchVars, extractVars, toolVars, stepVars>>

\* tool 7, refresh_cache: const components = await loadComponents(true)
RefreshCache ==
    /\ connected
    /\ loadComponentsBegin("refresh", TRUE)
    /\ UNCHANGED <<crawlVars, searchVars, extractVars, toolVars, stepVars>>

\* the crawl a suspended call awaits completes
CrawlCompletes(call) ==
    /\ \E outcome \in CrawlOutcomes : loadComponentsResume(call, outcome)
    /\ UNCHANGED <<crawlVars, searchVars, extractVars, toolVars, stepVars>>

SomeCrawlCompletes == \E call \in calls : CrawlCompletes(call)

\* time passes
Tick ==
    /\ clock < CACHE_DURATION + MaxElapsed
    /\ clock' = clock + 1
    /\ UNCHANGED <<componentsCache, lastCacheUpdate, calls, response, connected,
                   crawlSeq, cacheWriter, stampWriter, installedAt>>
    /\ UNCHANGED <<crawlVars, searchVars, extractVars, toolVars, stepVars>>

Init == CacheInit /\ CrawlInit /\ SearchInit /\ ExtractInit /\ ToolInit /\ StepInit

Next ==
    \/ MainPreload
    \/ ToolCall
    \/ RefreshCache
    \/ SomeCrawlCompletes
    \/ Tick

Spec == Init /\ [][Next]_vars

-----------------------------------------------------------------------------
(* Properties of the cache.                                                *)

\* the loadComponents calls that reached their await in this step
Started == calls' \ calls
\* the loadComponents calls whose crawl completed in this step
Completed == calls \ calls'

\* C1: a recrawl by a tool call (forced by refresh_cache or triggered by the age of
\* the cache) in which every directory listing failed leaves the records and the
\* timestamp of the cache as they were.
FailedRecrawlKeepsSnapshot ==
    [][ ((\E c \in Completed : c.kind # "main") /\ response'.allFailed)
        => (componentsCache' = componentsCache /\ lastCacheUpdate' = lastCacheUpdate) ]_vars

\* C2: refresh_cache answers a recrawl in which every listing failed with an
\* error, not with a success response.
RefreshReportsFailure ==
    (response.kind = "refresh" /\ response.allFailed) => response.isError

\* C3: at most one recrawl is in flight at any time.
SingleRecrawlInFlight == Cardinality(calls) <= 1

\* C4 as claimed: no unforced call starts a recrawl less than CACHE_DURATION after
\* a recrawl completed and left the cache non-empty.
FreshSinceCompletionServedFromCache ==
    [][ \A c \in Started :
          c.kind # "refresh" =>
             ~(cacheWriter # 0 /\ Len(componentsCache) > 0 /\ clock - installedAt < CACHE_DURATION) ]_vars

\* C4 as amended: no unforced call starts a recrawl while the cache is non-empty and
\* less than CACHE_DURATION has passed since lastCacheUpdate, the instant at which
\* the call that installed the snapshot began; and a call answered from the cache
\* starts no recrawl and leaves records and timestamp as they were.
FreshByTimestampServedFromCache ==
    [][ /\ \A c \in Started :
             c.kind # "refresh" =>
                ~(Len(componentsCache) > 0 /\ clock - lastCacheUpdate < CACHE_DURATION)
        /\ (response' # response /\ response'.source = "cache")
             => /\ componentsCache' = componentsCache
                /\ lastCacheUpdate' = lastCacheUpdate
                /\ calls' = calls
                /\ crawlSeq' = crawlSeq
                /\ response'.count = Len(componentsCache) ]_vars

\* a tool call was answered from a non-empty cache some minutes into its lifetime
CacheHitWitness ==
    /\ response.kind = "read" /\ response.source = "cache"
    /\ calls = {}
    /\ Len(componentsCache) > 0
    /\ lastCacheUpdate < clock /\ clock - lastCacheUpdate < CACHE_DURATION

\* C5: every refresh_cache call starts a recrawl of its own: a refresh response is
\* only ever produced by the completion of the recrawl that call started.
RefreshAlwaysRecrawls ==
    [][ (response' # response /\ response'.kind = "refresh")
        => (response'.source = "crawl" /\ \E c \in Completed : c.kind = "refresh") ]_vars

\* a refresh_cache call started its recrawl although the cache was non-empty and
\* younger than CACHE_DURATION
RefreshWhileFreshWitness ==
    \E c \in calls :
        /\ c.kind = "refresh"
        /\ Len(componentsCache) > 0
        /\ cacheWriter < c.id /\ installedAt < c.now
        /\ lastCacheUpdate <= c.now /\ c.now - lastCacheUpdate < CACHE_DURATION

\* C6: whenever the cache can be observed, records and timestamp are both initial
\* or both written by the same completed recrawl, and the records are the whole
\* result of that recrawl.
SnapshotFromOneRecrawl ==
    /\ cacheWriter = stampWriter
    /\ cacheWriter = 0 => (componentsCache = <<>> /\ lastCacheUpdate = 0)
    /\ cacheWriter # 0 => (\E o \in CrawlOutcomes : componentsCache = o.components)

\* a recrawl that started earlier is still in flight after a later one installed
\* its snapshot
OverlappingRecrawlsWitness ==
    /\ cacheWriter # 0
    /\ \E c \in calls : c.id < cacheWriter

\* C19: under any interleaving of overlapping loadComponents calls the timestamp of
\* the cache never decreases.
TimestampNeverDecreases ==
    [][ lastCacheUpdate' >= lastCacheUpdate ]_vars

\* the last recrawl to complete returned no record
EmptyInstalled == cacheWriter # 0 /\ componentsCache = <<>>

\* C20: a recrawl that returned no record does not make the cache fresh: while the
\* cache holds its empty result no call is answered from the cache, so every
\* unforced call starts a recrawl of its own, however soon it follows.
EmptyRecrawlNeverFresh ==
    [][ /\ EmptyInstalled => ~(response' # response /\ response'.source = "cache")
        /\ (response' # response /\ response'.source = "cache") => response'.count > 0 ]_vars

\* in the very minute a recrawl installed an empty result, with a timestamp less than
\* CACHE_DURATION old, a tool call started another recrawl
EmptyRecrawlNeverFreshWitness ==
    /\ EmptyInstalled
    /\ clock - lastCacheUpdate < CACHE_DURATION
    /\ \E c \in calls :
          /\ c.kind = "read"
          /\ c.now = installedAt
          /\ c.id > cacheWriter

-----------------------------------------------------------------------------
(* The search ranker: the handler of search_components.                    *)

UpperCase == <<"A","B","C","D","E","F","G","H","I","J","K","L","M","N","O","P","Q","R","S","T","U","V","W","X","Y","Z">>
LowerCase == <<"a","b","c","d","e","f","g","h","i","j","k","l","m","n","o","p","q","r","s","t","u","v","w","x","y","z">>

\* String.prototype.toLowerCase
toLowerCase(s) ==
    [i \in 1..Len(s) |->
        IF \E k \in 1..Len(UpperCase) : UpperCase[k] = s[i]
        THEN LowerCase[CHOOSE k \in 1..Len(UpperCase) : UpperCase[k] = s[i]]
        ELSE s[i]]

RECURSIVE trim(_)
\* String.prototype.trim
trim(s) ==
    IF s = <<>> THEN s
    ELSE IF isSpace(Head(s)) THEN trim(Tail(s))
    ELSE IF isSpace(s[Len(s)]) THEN trim(SubSeq(s, 1, Len(s) - 1))
    ELSE s

\* Array.prototype.slice(0, end)
slice0(a, end) ==
    LET stop == IF end < 0 THEN (IF Len(a) + end < 0 THEN 0 ELSE Len(a) + end)
                ELSE IF end > Len(a) THEN Len(a) ELSE end
    IN  SubSeq(a, 1, stop)

\* params.limit ?? 10
DEFAULT_LIMIT == 10

RECURSIVE tagsLoopNoBreak(_, _, _, _)
\* the loop over component.tags without its `break`
tagsLoopNoBreak(tags, i, q, acc) ==
    IF i > Len(tags) THEN acc
    ELSE IF Includes(toLowerCase(tags[i]), q)
         THEN tagsLoopNoBreak(tags, i + 1, q,
                  [score |-> acc.score + 20, matchedFields |-> Append(acc.matchedFields, "tags")])
         ELSE tagsLoopNoBreak(tags, i + 1, q, acc)

RECURSIVE tagsLoop(_, _, _, _)
\* `for (const tag of component.tags)`, lines 185-191, from tag i on
tagsLoop(tags, i, q, acc) ==
    IF i > Len(tags) THEN acc
    ELSE IF Includes(toLowerCase(tags[i]), q)
         THEN [score |-> acc.score + 20, matchedFields |-> Append(acc.matchedFields, "tags")]
         ELSE tagsLoop(tags, i + 1, q, acc)

\* scoreComponent with the name match scored but not pushed to matchedFields
scoreComponentNameNotRecorded(component, q) ==
    LET s0 == [score |-> 0, matchedFields |-> <<>>]
        s1 == IF Includes(toLowerCase(component.name), q)
              THEN [score |-> s0.score + 50, matchedFields |-> s0.matchedFields]
              ELSE s0
        s2 == IF Includes(toLowerCase(component.category), q)
              THEN [score |-> s1.score + 30, matchedFields |-> Append(s1.matchedFields, "category")]
              ELSE s1
        s3 == tagsLoop(component.tags, 1, q, s2)
        s4 == IF Includes(toLowerCase(component.description), q)
              THEN [score |-> s3.score + 10, matchedFields |-> Append(s3.matchedFields, "description")]
              ELSE s3
        s5 == IF toLowerCase(component.name) = q
              THEN [score |-> s4.score + 30, matchedFields |-> s4.matchedFields]
              ELSE s4
    IN  [component |-> component, score |-> s5.score, matchedFields |-> s5.matchedFields]

\* the body of `for (const component of components)`, lines 169-202: the score and
\* the matched fields of one component
scoreComponent(component, q) ==
    LET s0 == [score |-> 0, matchedFields |-> <<>>]
        s1 == IF Includes(toLowerCase(component.name), q)
              THEN [score |-> s0.score + 50, matchedFields |-> Append(s0.matchedFields, "name")]
              ELSE s0
        s2 == IF Includes(toLowerCase(component.category), q)
              THEN [score |-> s1.score + 30, matchedFields |-> Append(s1.matchedFields, "category")]
              ELSE s1
        s3 == tagsLoop(component.tags, 1, q, s2)
        s4 == IF Includes(toLowerCase(component.description), q)
              THEN [score |-> s3.score + 10, matchedFields |-> Append(s3.matchedFields, "description")]
              ELSE s3
        s5 == IF toLowerCase(component.name) = q
              THEN [score |-> s4.score + 30, matchedFields |-> s4.matchedFields]
              ELSE s4
    IN  [component |-> component, score |-> s5.score, matchedFields |-> s5.matchedFields]

RECURSIVE insertByScore(_, _)
\* x placed after every element of the sorted `sorted` that does not score less
insertByScore(sorted, x) ==
    IF sorted = <<>> THEN <<x>>
    ELSE IF Head(sorted).score >= x.score THEN <<Head(sorted)>> \o insertByScore(Tail(sorted), x)
    ELSE <<x>> \o sorted

RECURSIVE sortByScore(_)
\* results.sort((a, b) => b.score - a.score): descending, stable
sortByScore(results) ==
    IF results = <<>> THEN <<>>
    ELSE insertByScore(sortByScore(SubSeq(results, 1, Len(results) - 1)), results[Len(results)])

\* the handler of search_components, lines 150-221; `scored` keeps what the loop
\* computed for every component, in order
searchComponents(rawQuery, rawLimit, loaded) ==
    LET q == trim(toLowerCase(rawQuery))
        lim == IF rawLimit = <<>> THEN DEFAULT_LIMIT ELSE rawLimit[1]
        scored == [i \in 1..Len(loaded) |-> scoreComponent(loaded[i], q)]
        positive(r) == r.score > 0
        results == SelectSeq(scored, positive)
        topResults == slice0(sortByScore(results), lim)
    IN  IF q = <<>>
        THEN [text |-> "Please provide a search query", scored |-> <<>>, topResults |-> <<>>]
        ELSE [text |-> IF Len(topResults) = 0 THEN "No components found" ELSE "Found",
              scored |-> scored, topResults |-> topResults]

-----------------------------------------------------------------------------
(* The search ranker run on sample catalogs and queries.                   *)

\* records in the catalog handed to one search
MaxCatalog == 2

SampleRecords ==
    << [name |-> <<"B","u","t","t","o","n">>,
        category |-> <<"B","u","t","t","o","n","s">>,
        tags |-> <<<<"i","n","t","e","r","a","c","t","i","v","e">>>>,
        description |-> <<"A"," ","b","u","t","t","o","n">>],
       [name |-> <<"I","c","o","n","B","u","t","t","o","n">>,
        category |-> <<"B","u","t","t","o","n","s">>,
        tags |-> <<<<"a","n","i","m","a","t","i","o","n">>, <<"a","n","i","m","a","t","e","d">>>>,
        description |-> <<"I","c","o","n"," ","w","i","t","h"," ","l","a","b","e","l">>],
       [name |-> <<"T","a","b","s">>,
        category |-> <<"N","a","v","i","g","a","t","i","o","n">>,
        tags |-> <<>>,
        description |-> <<"T","a","b","b","e","d"," ","b","u","t","t","o","n"," ","b","a","r">>],
       [name |-> <<"H","e","r","o">>,
        category |-> <<"A","n","i","m","a","t","i","o","n">>,
        tags |-> <<<<"a","n","i","m","a","t","e","d">>, <<"a","n","i","m","a","t","i","o","n">>>>,
        description |-> <<"A","n","i","m","a","t","e","d"," ","h","e","r","o">>],
       [name |-> <<"B","U","T","T","O","N">>,
        category |-> <<"C","o","m","p","o","n","e","n","t","s">>,
        tags |-> <<<<"t","a","i","l","w","i","n","d">>>>,
        description |-> <<"C","a","l","l"," ","t","o"," ","a","c","t","i","o","n">>] >>

SampleQueries ==
    { <<"b","u","t","t","o","n">>,
      <<" ","B","u","t","t","o","n"," ">>,
      <<"a","n","i","m">>,
      <<"N","A","V">>,
      <<"z","z","z">>,
      <<" ">>,
      <<"t","a","b">> }

SampleLimits == { <<>>, <<0>>, <<1>>, <<2>> }

Catalogs ==
    UNION { { [i \in 1..n |-> SampleRecords[pick[i]]] : pick \in [1..n -> 1..Len(SampleRecords)] }
            : n \in 0..MaxCatalog }

NotRun == [text |-> "not run", scored |-> <<>>, topResults |-> <<>>]

SearchSpecInit ==
    /\ CacheInit
    /\ CrawlInit
    /\ catalog \in Catalogs
    /\ query \in SampleQueries
    /\ limit \in SampleLimits
    /\ searchOut = NotRun
    /\ ExtractInit
    /\ ToolInit
    /\ StepInit

\* tool 2, search_components, with `catalog` what its loadComponents() returned
SearchComponents ==
    /\ searchOut = NotRun
    /\ searchOut' = searchComponents(query, limit, catalog)
    /\ UNCHANGED <<catalog, query, limit>>
    /\ UNCHANGED <<cacheVars, crawlVars, extractVars, toolVars, stepVars>>

SearchNext == SearchComponents

SpecSearch == SearchSpecInit /\ [][SearchNext]_vars

-----------------------------------------------------------------------------
(* Properties of the search ranker.                                        *)

\* the query as the handler normalizes it
NormalizedQuery == trim(toLowerCase(query))

\* the sum of the weights of the fields of `c` that match `q`
WeightedSum(c, q) ==
      (IF Includes(toLowerCase(c.name), q) THEN 50 ELSE 0)
    + (IF Includes(toLowerCase(c.category), q) THEN 30 ELSE 0)
    + (IF \E k \in 1..Len(c.tags) : Includes(toLowerCase(c.tags[k]), q) THEN 20 ELSE 0)
    + (IF Includes(toLowerCase(c.description), q) THEN 10 ELSE 0)
    + (IF toLowerCase(c.name) = q THEN 30 ELSE 0)

\* C9: for a non-empty normalized query the score of every record is 50 for a name
\* match, plus 30 for a category match, plus 20 once for any tag match, plus 10 for
\* a description match, plus 30 for an exact name; so "Button" scores at least 80
\* for "button", and more than any record matched on its description only.
SearchScoreIsWeightedSum ==
    (searchOut # NotRun /\ NormalizedQuery # <<>>) =>
        /\ Len(searchOut.scored) = Len(catalog)
        /\ \A i \in 1..Len(catalog) :
              searchOut.scored[i].score = WeightedSum(catalog[i], NormalizedQuery)
        /\ \A k \in 1..Len(searchOut.topResults) :
              searchOut.topResults[k].score = WeightedSum(searchOut.topResults[k].component, NormalizedQuery)
        /\ \A i \in 1..Len(catalog) :
              (catalog[i].name = <<"B","u","t","t","o","n">> /\ NormalizedQuery = <<"b","u","t","t","o","n">>)
              => /\ searchOut.scored[i].score >= 80
                 /\ \A j \in 1..Len(catalog) :
                       searchOut.scored[j].matchedFields = <<"description">>
                       => searchOut.scored[j].score < searchOut.scored[i].score

\* a search for "anim" scored a record with two matching tags: 30 for its category,
\* 20 once for its tags, 10 for its description
SearchScoreWitness ==
    /\ NormalizedQuery = <<"a","n","i","m">>
    /\ \E i \in 1..Len(searchOut.scored) :
          /\ catalog[i].name = <<"H","e","r","o">>
          /\ searchOut.scored[i].score = 60
          /\ searchOut.scored[i].matchedFields = <<"category", "tags", "description">>

\* C10: the score the search computes for a record is positive exactly when its
\* matchedFields is non-empty, and every result returned has a positive score
\* and at least one matched field.
ScorePositiveIffMatched ==
    searchOut # NotRun =>
        /\ \A i \in 1..Len(searchOut.scored) :
              (searchOut.scored[i].score > 0) <=> (searchOut.scored[i].matchedFields # <<>>)
        /\ \A k \in 1..Len(searchOut.topResults) :
              /\ searchOut.topResults[k].score > 0
              /\ searchOut.topResults[k].matchedFields # <<>>

\* a search whose only match is an exact name: 50 plus the bonus of 30, matched
\* field "name", beside a record that scores 0 with no matched field
ExactNameBonusWitness ==
    /\ \E k \in 1..Len(searchOut.topResults) :
          /\ searchOut.topResults[k].score = 80
          /\ searchOut.topResults[k].matchedFields = <<"name">>
    /\ \E i \in 1..Len(searchOut.scored) :
          /\ searchOut.scored[i].score = 0
          /\ searchOut.scored[i].matchedFields = <<>>

\* the limit the search applies
EffectiveLimit == IF limit = <<>> THEN DEFAULT_LIMIT ELSE limit[1]

\* the positions of the catalog whose record scores above 0
Matching == {i \in 1..Len(searchOut.scored) : searchOut.scored[i].score > 0}

\* the place of record i among the matching records: after every record that
\* scores more and every record that scores the same and comes earlier in the crawl
RankOf(i) ==
    1 + Cardinality({j \in Matching :
                        \/ searchOut.scored[j].score > searchOut.scored[i].score
                        \/ (searchOut.scored[j].score = searchOut.scored[i].score /\ j < i)})

\* C11: the search returns exactly the records that score above 0, by descending
\* score and, for equal scores, in crawl order, cut to the first `limit` (10 when
\* absent): at most `limit` entries, and "no match" is reported only when no record
\* scores above 0.
SearchReturnsRankedMatches ==
    (searchOut # NotRun /\ NormalizedQuery # <<>>) =>
        /\ Len(searchOut.topResults) <= EffectiveLimit
        /\ Len(searchOut.topResults) =
              (IF Cardinality(Matching) < EffectiveLimit THEN Cardinality(Matching) ELSE EffectiveLimit)
        /\ \A i \in Matching :
              RankOf(i) <= EffectiveLimit => searchOut.topResults[RankOf(i)] = searchOut.scored[i]
        /\ searchOut.text = "No components found" => Matching = {}

-----------------------------------------------------------------------------
(* The metadata extractor: what fetchComponentMetadata derives from the    *)
(* name of a file and its downloaded text.                                 *)

\* const categoryMap, in the order Object.entries enumerates it (insertion order)
categoryMap ==
    << <<<<"b","u","t","t","o","n">>, <<"B","u","t","t","o","n","s">>>>,
       <<<<"b","t","n">>, <<"B","u","t","t","o","n","s">>>>,
       <<<<"c","a","r","d">>, <<"C","a","r","d","s">>>>,
       <<<<"i","n","p","u","t">>, <<"F","o","r","m","s">>>>,
       <<<<"f","o","r","m">>, <<"F","o","r","m","s">>>>,
       <<<<"s","e","l","e","c","t">>, <<"F","o","r","m","s">>>>,
       <<<<"c","h","e","c","k","b","o","x">>, <<"F","o","r","m","s">>>>,
       <<<<"r","a","d","i","o">>, <<"F","o","r","m","s">>>>,
       <<<<"t","o","g","g","l","e">>, <<"F","o","r","m","s">>>>,
       <<<<"s","w","i","t","c","h">>, <<"F","o","r","m","s">>>>,
       <<<<"n","a","v">>, <<"N","a","v","i","g","a","t","i","o","n">>>>,
       <<<<"h","e","a","d","e","r">>, <<"N","a","v","i","g","a","t","i","o","n">>>>,
       <<<<"f","o","o","t","e","r">>, <<"N","a","v","i","g","a","t","i","o","n">>>>,
       <<<<"s","i","d","e","b","a","r">>, <<"N","a","v","i","g","a","t","i","o","n">>>>,
       <<<<"m","e","n","u">>, <<"N","a","v","i","g","a","t","i","o","n">>>>,
       <<<<"m","o","d","a","l">>, <<"O","v","e","r","l","a","y","s">>>>,
       <<<<"d","i","a","l","o","g">>, <<"O","v","e","r","l","a","y","s">>>>,
       <<<<"p","o","p","o","v","e","r">>, <<"O","v","e","r","l","a","y","s">>>>,
       <<<<"t","o","o","l","t","i","p">>, <<"O","v","e","r","l","a","y","s">>>>,
       <<<<"d","r","o","p","d","o","w","n">>, <<"O","v","e","r","l","a","y","s">>>>,
       <<<<"s","h","e","e","t">>, <<"O","v","e","r","l","a","y","s">>>>,
       <<<<"d","r","a","w","e","r">>, <<"O","v","e","r","l","a","y","s">>>>,
       <<<<"b","a","d","g","e">>, <<"D","a","t","a"," ","D","i","s","p","l","a","y">>>>,
       <<<<"a","v","a","t","a","r">>, <<"D","a","t","a"," ","D","i","s","p","l","a","y">>>>,
       <<<<"l","i","s","t">>, <<"D","a","t","a"," ","D","i","s","p","l","a","y">>>>,
       <<<<"t","a","b","l","e">>, <<"D","a","t","a"," ","D","i","s","p","l","a","y">>>>,
       <<<<"t","a","b","s">>, <<"N","a","v","i","g","a","t","i","o","n">>>>,
       <<<<"a","c","c","o","r","d","i","o","n">>, <<"D","a","t","a"," ","D","i","s","p","l","a","y">>>>,
       <<<<"c","a","r","o","u","s","e","l">>, <<"D","a","t","a"," ","D","i","s","p","l","a","y">>>>,
       <<<<"s","l","i","d","e","r">>, <<"F","o","r","m","s">>>>,
       <<<<"p","r","o","g","r","e","s","s">>, <<"F","e","e","d","b","a","c","k">>>>,
       <<<<"s","p","i","n","n","e","r">>, <<"F","e","e","d","b","a","c","k">>>>,
       <<<<"l","o","a","d","e","r">>, <<"F","e","e","d","b","a","c","k">>>>,
       <<<<"s","k","e","l","e","t","o","n">>, <<"F","e","e","d","b","a","c","k">>>>,
       <<<<"a","l","e","r","t">>, <<"F","e","e","d","b","a","c","k">>>>,
       <<<<"t","o","a","s","t">>, <<"F","e","e","d","b","a","c","k">>>>,
       <<<<"n","o","t","i","f","i","c","a","t","i","o","n">>, <<"F","e","e","d","b","a","c","k">>>>,
       <<<<"l","a","y","o","u","t">>, <<"L","a","y","o","u","t">>>>,
       <<<<"c","o","n","t","a","i","n","e","r">>, <<"L","a","y","o","u","t">>>>,
       <<<<"g","r","i","d">>, <<"L","a","y","o","u","t">>>>,
       <<<<"f","l","e","x">>, <<"L","a","y","o","u","t">>>>,
       <<<<"s","e","c","t","i","o","n">>, <<"L","a","y","o","u","t">>>>,
       <<<<"d","i","v","i","d","e","r">>, <<"L","a","y","o","u","t">>>>,
       <<<<"s","e","p","a","r","a","t","o","r">>, <<"L","a","y","o","u","t">>>>,
       <<<<"s","p","a","c","e">>, <<"L","a","y","o","u","t">>>>,
       <<<<"t","y","p","o","g","r","a","p","h","y">>, <<"T","y","p","o","g","r","a","p","h","y">>>>,
       <<<<"t","e","x","t">>, <<"T","y","p","o","g","r","a","p","h","y">>>>,
       <<<<"h","e","a","d","i","n","g">>, <<"T","y","p","o","g","r","a","p","h","y">>>>,
       <<<<"t","i","t","l","e">>, <<"T","y","p","o","g","r","a","p","h","y">>>>,
       <<<<"l","a","b","e","l">>, <<"T","y","p","o","g","r","a","p","h","y">>>>,
       <<<<"i","c","o","n">>, <<"I","c","o","n","s">>>>,
       <<<<"i","m","a","g","e">>, <<"M","e","d","i","a">>>>,
       <<<<"v","i","d","e","o">>, <<"M","e","d","i","a">>>>,
       <<<<"a","n","i","m","a","t","i","o","n">>, <<"A","n","i","m","a","t","i","o","n">>>>,
       <<<<"t","r","a","n","s","i","t","i","o","n">>, <<"A","n","i","m","a","t","i","o","n">>>>,
       <<<<"e","f","f","e","c","t">>, <<"A","n","i","m","a","t","i","o","n">>>>,
       <<<<"g","r","a","d","i","e","n","t">>, <<"S","t","y","l","e","s">>>>,
       <<<<"t","h","e","m","e">>, <<"S","t","y","l","e","s">>>>,
       <<<<"c","h","a","r","t">>, <<"D","a","t","a"," ","V","i","s","u","a","l","i","z","a","t","i","o","n">>>>,
       <<<<"g","r","a","p","h">>, <<"D","a","t","a"," ","V","i","s","u","a","l","i","z","a","t","i","o","n">>>> >>

\* code.includes("Button") || code.includes("btn") ... lines 735-741
inferFromCode(code0) ==
    IF Includes(code0, <<"B","u","t","t","o","n">>) \/ Includes(code0, <<"b","t","n">>) THEN <<"B","u","t","t","o","n","s">>
    ELSE IF Includes(code0, <<"C","a","r","d">>) THEN <<"C","a","r","d","s">>
    ELSE IF Includes(code0, <<"I","n","p","u","t">>) \/ Includes(code0, <<"F","o","r","m">>) THEN <<"F","o","r","m","s">>
    ELSE IF Includes(code0, <<"M","o","d","a","l">>) \/ Includes(code0, <<"D","i","a","l","o","g">>) THEN <<"O","v","e","r","l","a","y","s">>
    ELSE IF Includes(code0, <<"N","a","v">>) THEN <<"N","a","v","i","g","a","t","i","o","n">>
    ELSE <<"C","o","m","p","o","n","e","n","t","s">>

RECURSIVE categoryLoop(_, _, _)
\* `for (const [key, category] of Object.entries(categoryMap))` from entry i on,
\* then the inference from the code
categoryLoop(i, nameLower, code0) ==
    IF i > Len(categoryMap) THEN inferFromCode(code0)
    ELSE IF Includes(nameLower, categoryMap[i][1]) THEN categoryMap[i][2]
    ELSE categoryLoop(i + 1, nameLower, code0)

\* extractCategory with the inference from the code tried before the name table
extractCategoryCodeFirst(name, code0) ==
    IF inferFromCode(code0) # inferFromCode(<<>>) THEN inferFromCode(code0)
    ELSE categoryLoop(1, toLowerCase(name), code0)

\* extractCategory(componentName, code)
extractCategory(name, code0) == categoryLoop(1, toLowerCase(name), code0)

-----------------------------------------------------------------------------
(* The three regular expressions of extractDescription, matched the way    *)
(* the backtracking engine matches them: leftmost start, greedy            *)
(* quantifiers, giving back one character at a time.                       *)

RECURSIVE spacesEnd(_, _)
\* the first position from p on that holds no white space (Len(s) + 1 if none)
spacesEnd(s, p) ==
    IF p <= Len(s) /\ isSpace(s[p]) THEN spacesEnd(s, p + 1) ELSE p

\* the positions ([^*]|\*[^/])* can end at when it starts at p, and that hold "*/"
RECURSIVE groupCloses(_, _)
groupCloses(s, p) ==
    LET here == IF p + 1 <= Len(s) /\ s[p] = "*" /\ s[p + 1] = "/" THEN {p} ELSE {}
    IN  IF p > Len(s) THEN {}
        ELSE IF s[p] # "*" THEN here \cup groupCloses(s, p + 1)
        ELSE IF p + 1 <= Len(s) /\ s[p + 1] # "/" THEN here \cup groupCloses(s, p + 2)
        ELSE here

\* /\/\*\*\s*\n([^*]|\*[^/])*\*\// tried at position i: the end of the match, or 0.
\* \s* takes the longest run of white space and gives back to one of its line feeds,
\* the last first; the group then runs as far as it can and gives back to a "*/"
jsdocMatchAt(s, i) ==
    IF ~(i + 2 <= Len(s) /\ s[i] = "/" /\ s[i + 1] = "*" /\ s[i + 2] = "*") THEN 0
    ELSE LET r == spacesEnd(s, i + 3)
             feeds == {n \in (i + 3)..(r - 1) : s[n] = "\n"}
             ends(n) == groupCloses(s, n + 1)
             good == {n \in feeds : ends(n) # {}}
         IN  IF good = {} THEN 0
             ELSE LET n == CHOOSE m \in good : \A k \in good : k <= m
                      e == CHOOSE m \in ends(n) : \A k \in ends(n) : k <= m
                  IN  e + 1

\* code.match(/\/\*\*\s*\n([^*]|\*[^/])*\*\//): <<>> for null, else <<match[0]>>
jsdocMatch(s) ==
    LET starts == {i \in 1..Len(s) : jsdocMatchAt(s, i) # 0}
    IN  IF starts = {} THEN <<>>
        ELSE LET i == CHOOSE m \in starts : \A k \in starts : m <= k
             IN  <<SubSeq(s, i, jsdocMatchAt(s, i))>>

RECURSIVE takeWhileNot(_, _, _)
\* the longest run from p on of characters outside `stop`: the position after it
takeWhileNot(s, p, stop) ==
    IF p <= Len(s) /\ s[p] \notin stop THEN takeWhileNot(s, p + 1, stop) ELSE p

\* \s*(<one or more characters outside stop>) from p: where the group starts, or 0.
\* \s* takes the longest run of white space and gives back one character at a time
\* until the group can start
groupStartAfterSpaces(s, p, stop) ==
    LET r == spacesEnd(s, p)
        can == {n \in p..r : n <= Len(s) /\ s[n] \notin stop}
    IN  IF can = {} THEN 0 ELSE CHOOSE m \in can : \A k \in can : k <= m

\* comment.match(/\*\s*([^@\n]+)/): <<>> for null, else <<match[1]>>
descriptionMatch(s) ==
    LET stop == {"@", "\n"}
        starts == {i \in 1..Len(s) : s[i] = "*" /\ groupStartAfterSpaces(s, i + 1, stop) # 0}
    IN  IF starts = {} THEN <<>>
        ELSE LET i == CHOOSE m \in starts : \A k \in starts : m <= k
                 g == groupStartAfterSpaces(s, i + 1, stop)
             IN  <<SubSeq(s, g, takeWhileNot(s, g, stop) - 1)>>

\* code.match(/\/\/\s*(.+)/): <<>> for null, else <<match[1]>>
commentMatch(s) ==
    LET stop == {"\n", "\r"}
        starts == {i \in 1..(Len(s) - 1) :
                      s[i] = "/" /\ s[i + 1] = "/" /\ groupStartAfterSpaces(s, i + 2, stop) # 0}
    IN  IF starts = {} THEN <<>>
        ELSE LET i == CHOOSE m \in starts : \A k \in starts : m <= k
                 g == groupStartAfterSpaces(s, i + 2, stop)
             IN  <<SubSeq(s, g, takeWhileNot(s, g, stop) - 1)>>

\* `${componentName} component from VengeanceUI`
generatedDescription(name) == name \o <<" ","c","o","m","p","o","n","e","n","t"," ","f","r","o","m"," ","V","e","n","g","e","a","n","c","e","U","I">>

\* extractDescription(code, componentName)
extractDescription(code0, name) ==
    LET jsdoc == jsdocMatch(code0)
        first == IF jsdoc = <<>> THEN <<>> ELSE descriptionMatch(jsdoc[1])
        line == commentMatch(code0)
    IN  IF first # <<>> THEN trim(first[1])
        ELSE IF line # <<>> THEN trim(line[1])
        ELSE generatedDescription(name)

\* extractTags(code): the tags in the order the Set received them
extractTags(code0) ==
    LET has(w) == Includes(code0, w)
        add(c, t) == IF c THEN <<t>> ELSE <<>>
    IN  add(has(<<"@","k","e","y","f","r","a","m","e","s">>) \/ has(<<"a","n","i","m","a","t","i","o","n">>), <<"a","n","i","m","a","t","i","o","n">>)
     \o add(has(<<"t","r","a","n","s","i","t","i","o","n">>) \/ has(<<"t","r","a","n","s","f","o","r","m">>), <<"a","n","i","m","a","t","e","d">>)
     \o add(has(<<"o","n","C","l","i","c","k">>) \/ has(<<"o","n","C","h","a","n","g","e">>) \/ has(<<"o","n","H","o","v","e","r">>), <<"i","n","t","e","r","a","c","t","i","v","e">>)
     \o add(has(<<"g","r","a","d","i","e","n","t">>), <<"g","r","a","d","i","e","n","t">>)
     \o add(has(<<"T","a","i","l","w","i","n","d">>) \/ has(<<"c","l","a","s","s","N","a","m","e">>), <<"t","a","i","l","w","i","n","d">>)
     \o add(has(<<"s","t","y","l","e","d">>), <<"s","t","y","l","e","d","-","c","o","m","p","o","n","e","n","t","s">>)
     \o add(has(<<"f","l","e","x">>) \/ has(<<"g","r","i","d">>), <<"l","a","y","o","u","t">>)
     \o add(has(<<"r","e","s","p","o","n","s","i","v","e">>) \/ has(<<"m","d",":">>) \/ has(<<"l","g",":">>), <<"r","e","s","p","o","n","s","i","v","e">>)
     \o add(has(<<"u","s","e","R","e","f">>) \/ has(<<"u","s","e","E","f","f","e","c","t">>) \/ has(<<"u","s","e","S","t","a","t","e">>), <<"h","o","o","k","s">>)
     \o add(has(<<"f","o","r","w","a","r","d","R","e","f">>), <<"c","o","m","p","o","s","a","b","l","e">>)
     \o add(has(<<"c","h","i","l","d","r","e","n">>), <<"c","o","m","p","o","u","n","d">>)

\* the record fetchComponentMetadata returns for the file `name0` with text `code0`,
\* lines 635-648 (without sourceUrl, code, dependencies, path and size)
componentMetadata(name0, code0) ==
    LET componentName0 == extractComponentName(name0)
    IN  [name |-> componentName0,
         category |-> extractCategory(componentName0, code0),
         description |-> extractDescription(code0, componentName0),
         tags |-> extractTags(code0)]

-----------------------------------------------------------------------------
(* The extractor run on sample files.                                      *)

\* pieces a sample file text is made of
MaxPieces == 3

SampleFileNames ==
    { <<"A","n","i","m","a","t","e","d","B","u","t","t","o","n",".","t","s","x">>, <<"C","a","r","d","B","U","T","T","O","N",".","j","s","x">>, <<"G","r","a","d","i","e","n","t","C","a","r","d",".","t","s","x">>,
      <<"H","e","r","o",".","t","s">>, <<"O","r","b",".","j","s">>, <<"N","a","v","T","a","b","s",".","t","s","x">> }

ContentPieces ==
    << <<"/","*","*","\n">>, <<" ","*"," ","H","i","\n">>, <<" ","*"," ","@","p","\n">>, <<" ","*","/","\n">>, <<"/","*","*"," ","H","i"," ","*","/">>,
       <<"/","/"," ">>, <<"/","/","o","k","\n">>, <<"\n">>, <<"<","C","a","r","d","/",">">> >>

RECURSIVE joinPieces(_)
joinPieces(picks) ==
    IF picks = <<>> THEN <<>> ELSE ContentPieces[Head(picks)] \o joinPieces(Tail(picks))

Contents ==
    UNION { { joinPieces(picks) : picks \in [1..n -> 1..Len(ContentPieces)] } : n \in 0..MaxPieces }

ExtractSpecInit ==
    /\ CacheInit
    /\ CrawlInit
    /\ SearchInit
    /\ ToolInit
    /\ StepInit
    /\ itemName \in SampleFileNames
    /\ code \in Contents
    /\ extracted = <<>>

\* fetchComponentMetadata once the download of `itemName` answered `code`
ExtractMetadata ==
    /\ extracted = <<>>
    /\ extracted' = <<componentMetadata(itemName, code)>>
    /\ UNCHANGED <<itemName, code>>
    /\ UNCHANGED <<cacheVars, crawlVars, searchVars, toolVars, stepVars>>

ExtractNext == ExtractMetadata

SpecExtract == ExtractSpecInit /\ [][ExtractNext]_vars

-----------------------------------------------------------------------------
(* Properties of the extractor.                                            *)

\* the component name of the sample file
SampleName == extractComponentName(itemName)

\* no keyword of the name table occurs in the lower-cased name
NoKeywordInName ==
    \A k \in 1..Len(categoryMap) : ~Includes(toLowerCase(SampleName), categoryMap[k][1])

\* none of the markers the code is searched for occurs in it
NoMarkerInCode ==
    \A w \in {<<"B","u","t","t","o","n">>, <<"b","t","n">>, <<"C","a","r","d">>, <<"I","n","p","u","t">>, <<"F","o","r","m">>, <<"M","o","d","a","l">>, <<"D","i","a","l","o","g">>, <<"N","a","v">>} :
        ~Includes(code, w)

\* C12: every name whose lower-cased form contains "button" gets category "Buttons",
\* whatever other keywords the name and whatever markers the code contain; a name
\* with no keyword of the table whose code holds no marker gets "Components".
ButtonNamesAreButtons ==
    extracted # <<>> =>
        /\ Includes(toLowerCase(SampleName), <<"b","u","t","t","o","n">>) => extracted[1].category = <<"B","u","t","t","o","n","s">>
        /\ (NoKeywordInName /\ NoMarkerInCode) => extracted[1].category = <<"C","o","m","p","o","n","e","n","t","s">>

\* a name holding "card" before "BUTTON", with code that holds the marker Card, was
\* classified as Buttons
ButtonNamesAreButtonsWitness ==
    /\ extracted # <<>>
    /\ SampleName = <<"C","a","r","d","B","U","T","T","O","N">>
    /\ Includes(code, <<"C","a","r","d">>)
    /\ extracted[1].category = <<"B","u","t","t","o","n","s">>

\* C13: every record the extractor builds has a non-empty description.
DescriptionNonEmpty ==
    extracted # <<>> => extracted[1].description # <<>>

\* where `w` occurs in s at or after position p, in increasing order
occurrences(s, w, p) == {i \in p..(Len(s) - Len(w) + 1) : SubSeq(s, i, i + Len(w) - 1) = w}

least(S) == CHOOSE m \in S : \A k \in S : m <= k

\* the documentation comment blocks of the sample text: "/**" up to the next "*/"
DocBlockStarts == {i \in occurrences(code, <<"/","*","*">>, 1) : occurrences(code, <<"*","/">>, i + 3) # {}}

\* what the first documentation comment block holds between "/**" and "*/"
DocBlockBody ==
    LET i == least(DocBlockStarts)
    IN  SubSeq(code, i + 3, least(occurrences(code, <<"*","/">>, i + 3)) - 1)

RECURSIVE splitLines(_)
splitLines(s) ==
    LET feeds == occurrences(s, <<"\n">>, 1)
    IN  IF feeds = {} THEN <<s>>
        ELSE <<SubSeq(s, 1, least(feeds) - 1)>> \o splitLines(SubSeq(s, least(feeds) + 1, Len(s)))

\* a line of a block without its leading "*" decoration, trimmed
lineText(line) ==
    LET t == trim(line)
    IN  IF t # <<>> /\ Head(t) = "*" THEN trim(Tail(t)) ELSE t

\* the lines of the first block that hold text and are no annotation
DocTextLines ==
    LET lines == splitLines(DocBlockBody)
        texts == [k \in 1..Len(lines) |-> lineText(lines[k])]
        isText(t) == t # <<>> /\ Head(t) # "@"
    IN  SelectSeq(texts, isText)

\* the text of the first single-line comment, trimmed
FirstLineCommentText ==
    LET i == least(occurrences(code, <<"/","/">>, 1))
        rest == SubSeq(code, i + 2, Len(code))
    IN  trim(splitLines(rest)[1])

\* C14: with a documentation comment block in the text the description is the first
\* text line of the block that is no annotation, trimmed; with none, the trimmed text
\* of the first single-line comment; with neither, "<name> component from VengeanceUI".
DescriptionFromComments ==
    extracted # <<>> =>
        /\ (DocBlockStarts # {} /\ DocTextLines # <<>>)
              => extracted[1].description = DocTextLines[1]
        /\ (DocBlockStarts = {} /\ occurrences(code, <<"/","/">>, 1) # {} /\ FirstLineCommentText # <<>>)
              => extracted[1].description = FirstLineCommentText
        /\ (DocBlockStarts = {} /\ occurrences(code, <<"/","/">>, 1) = {})
              => extracted[1].description = generatedDescription(SampleName)

-----------------------------------------------------------------------------
(* The handlers of get_component_code and list_categories, and             *)
(* getCategories.                                                          *)

\* what Array.prototype.find returns when `hits` are the elements that satisfy its
\* test: <<>> for undefined, else <<the first of them>>
firstOf(hits) == IF hits = <<>> THEN <<>> ELSE <<Head(hits)>>

\* the handler with the filter result not sliced
getComponentCodeNoSlice(rawName, loaded) ==
    LET componentName0 == trim(rawName)
        isIt(c) == toLowerCase(c.name) = toLowerCase(componentName0)
        isSimilar(c) == Includes(toLowerCase(c.name), toLowerCase(componentName0))
        component == firstOf(SelectSeq(loaded, isIt))
        similar == SelectSeq(loaded, isSimilar)
    IN  IF componentName0 = <<>>
        THEN [text |-> "Please provide a component name", suggestions |-> <<>>, component |-> <<>>]
        ELSE IF component = <<>>
        THEN IF Len(similar) > 0
             THEN [text |-> "not found. Did you mean", component |-> <<>>,
                   suggestions |-> [k \in 1..Len(similar) |-> similar[k].name]]
             ELSE [text |-> "not found. Use 'search_components'", suggestions |-> <<>>, component |-> <<>>]
        ELSE [text |-> "code", suggestions |-> <<>>, component |-> component]

\* the handler of get_component_code, lines 234-306, up to the choice of its response
getComponentCode(rawName, loaded) ==
    LET componentName0 == trim(rawName)
        isIt(c) == toLowerCase(c.name) = toLowerCase(componentName0)
        isSimilar(c) == Includes(toLowerCase(c.name), toLowerCase(componentName0))
        component == firstOf(SelectSeq(loaded, isIt))
        similar == slice0(SelectSeq(loaded, isSimilar), 5)
    IN  IF componentName0 = <<>>
        THEN [text |-> "Please provide a component name", suggestions |-> <<>>, component |-> <<>>]
        ELSE IF component = <<>>
        THEN IF Len(similar) > 0
             THEN [text |-> "not found. Did you mean", component |-> <<>>,
                   suggestions |-> [k \in 1..Len(similar) |-> similar[k].name]]
             ELSE [text |-> "not found. Use 'search_components'", suggestions |-> <<>>, component |-> <<>>]
        ELSE [text |-> "code", suggestions |-> <<>>, component |-> component]

\* Number.prototype.toString for the counts that occur (below 100)
numberToString(n) ==
    LET digit(d) == <<"0","1","2","3","4","5","6","7","8","9">>[d + 1]
    IN  IF n < 10 THEN <<digit(n)>> ELSE <<digit(n \div 10), digit(n % 10)>>

RECURSIVE groupByCategoryLastSeen(_, _, _)
\* the loop of getCategories with a category moved to the end whenever it recurs
groupByCategoryLastSeen(records, i, map) ==
    IF i > Len(records) THEN map
    ELSE LET cat == records[i].category
             known == {k \in 1..Len(map) : map[k].name = cat}
             isOther(e) == e.name # cat
             old == IF known = {} THEN <<>> ELSE map[CHOOSE k \in known : TRUE].components
         IN  groupByCategoryLastSeen(records, i + 1,
                 Append(SelectSeq(map, isOther), [name |-> cat, components |-> Append(old, records[i])]))

RECURSIVE groupByCategory(_, _, _)
\* `for (const component of components)`, lines 843-848: categoryMap as the sequence
\* of its entries in insertion order
groupByCategory(records, i, map) ==
    IF i > Len(records) THEN map
    ELSE LET cat == records[i].category
             known == {k \in 1..Len(map) : map[k].name = cat}
             withKey == IF known = {} THEN Append(map, [name |-> cat, components |-> <<>>]) ELSE map
             at == CHOOSE k \in 1..Len(withKey) : withKey[k].name = cat
         IN  groupByCategory(records, i + 1,
                 [withKey EXCEPT ![at].components = Append(@, records[i])])

\* getCategories(components)
getCategories(records) ==
    LET map == groupByCategory(records, 1, <<>>)
    IN  [k \in 1..Len(map) |->
            [name |-> map[k].name,
             count |-> Len(map[k].components),
             description |-> numberToString(Len(map[k].components)) \o <<" ">> \o toLowerCase(map[k].name)
                             \o <<" ","c","o","m","p","o","n","e","n","t">> \o (IF Len(map[k].components) # 1 THEN <<"s">> ELSE <<>>)]]

\* the handler of list_categories, lines 445-478
listCategories(loaded) ==
    LET categories == getCategories(loaded)
    IN  [text |-> IF Len(categories) = 0 THEN "No categories found" ELSE "VengeanceUI Categories",
         categories |-> categories]

-----------------------------------------------------------------------------
(* The two handlers run on sample catalogs.                                *)

\* records in the catalog handed to get_component_code and list_categories
MaxToolCatalog == 6

ToolRecords ==
    << [name |-> <<"A","n","i","m","a","t","e","d","B","u","t","t","o","n">>, category |-> <<"B","u","t","t","o","n","s">>],
       [name |-> <<"B","u","t","t","o","n">>, category |-> <<"B","u","t","t","o","n","s">>],
       [name |-> <<"G","r","a","d","i","e","n","t","C","a","r","d">>, category |-> <<"C","a","r","d","s">>] >>

ToolCatalogs ==
    UNION { { [i \in 1..n |-> ToolRecords[pick[i]]] : pick \in [1..n -> 1..Len(ToolRecords)] }
            : n \in 0..MaxToolCatalog }

SampleComponentNames ==
    { <<"B","u","t","t">>, <<" ","B","U","T","T"," ">>, <<"b","u","t","t","o","n">>, <<" ","B","u","t","t","o","n">>, <<"C","a","r","d">>, <<"z","z","z">>, <<>>, <<" ">> }

ToolSpecInit ==
    /\ CacheInit
    /\ CrawlInit
    /\ ExtractInit
    /\ StepInit
    /\ catalog \in ToolCatalogs
    /\ query = <<>>
    /\ limit = <<>>
    /\ searchOut = NotRun
    /\ componentName \in SampleComponentNames
    /\ codeOut = NoToolResponse
    /\ categoriesOut = NoCategories

\* tool 3, get_component_code, with `catalog` what its loadComponents() returned
GetComponentCode ==
    /\ codeOut = NoToolResponse
    /\ codeOut' = getComponentCode(componentName, catalog)
    /\ UNCHANGED <<componentName, categoriesOut>>
    /\ UNCHANGED <<cacheVars, crawlVars, searchVars, extractVars, stepVars>>

\* tool 6, list_categories, with `catalog` what its loadComponents() returned
ListCategories ==
    /\ categoriesOut = NoCategories
    /\ categoriesOut' = listCategories(catalog)
    /\ UNCHANGED <<componentName, codeOut>>
    /\ UNCHANGED <<cacheVars, crawlVars, searchVars, extractVars, stepVars>>

ToolNext == GetComponentCode \/ ListCategories

SpecTools == ToolSpecInit /\ [][ToolNext]_vars

-----------------------------------------------------------------------------
(* Properties of the two handlers.                                         *)

\* the positions of the catalog whose name contains the requested string `wanted`,
\* letter case ignored
NamesContaining(wanted) ==
    {i \in 1..Len(catalog) : Includes(toLowerCase(catalog[i].name), toLowerCase(wanted))}

\* no record of the catalog is named `wanted`, letter case ignored
NoRecordNamed(wanted) ==
    \A i \in 1..Len(catalog) : toLowerCase(catalog[i].name) # toLowerCase(wanted)

\* the response is a not-found response whose suggestions are the first five, in
\* crawl order, of the records whose name contains `wanted`
SuggestsFirstFive(wanted) ==
    LET similar == NamesContaining(wanted)
        place(i) == Cardinality({j \in similar : j <= i})
    IN  /\ codeOut.component = <<>>
        /\ codeOut.text \in {"not found. Did you mean", "not found. Use 'search_components'"}
        /\ Len(codeOut.suggestions) <= 5
        /\ Len(codeOut.suggestions) = (IF Cardinality(similar) < 5 THEN Cardinality(similar) ELSE 5)
        /\ \A i \in similar : place(i) <= 5 => codeOut.suggestions[place(i)] = catalog[i].name

\* C15 as claimed: for every requested name that equals no record's name, letter case
\* ignored, get_component_code answers not-found with at most 5 suggestions: the
\* records whose name contains the requested string, in crawl order, all of them
\* when there are at most 5.
NotFoundSuggestsSimilar ==
    (codeOut # NoToolResponse /\ NoRecordNamed(componentName)) => SuggestsFirstFive(componentName)

\* C15 as amended: the same for every requested name that, trimmed, is not empty and
\* equals no record's name, the suggestions being the records whose name contains the
\* trimmed name.
NotFoundSuggestsSimilarTrimmed ==
    (codeOut # NoToolResponse /\ trim(componentName) # <<>> /\ NoRecordNamed(trim(componentName)))
        => SuggestsFirstFive(trim(componentName))

\* "Butt" was asked for in a catalog with six records whose name contains it: the
\* first five were suggested, AnimatedButton among them
NotFoundSuggestsSimilarWitness ==
    /\ componentName = <<"B","u","t","t">>
    /\ Cardinality(NamesContaining(componentName)) = 6
    /\ Len(codeOut.suggestions) = 5
    /\ \E k \in 1..5 : codeOut.suggestions[k] = <<"A","n","i","m","a","t","e","d","B","u","t","t","o","n">>

\* the categories list_categories returned
Summaries == categoriesOut.categories

\* the position in the catalog of the first record of category `cat`
FirstSeen(cat) == least({i \in 1..Len(catalog) : catalog[i].category = cat})

RECURSIVE sumCounts(_)
sumCounts(summaries) ==
    IF summaries = <<>> THEN 0 ELSE Head(summaries).count + sumCounts(Tail(summaries))

\* C16: getCategories returns exactly one summary for each category of its input,
\* in the order in which the categories first appear; each count is at least 1 and
\* is the number of records of that category, and the counts add up to the number
\* of records.
CategoriesOnceInFirstSeenOrder ==
    categoriesOut # NoCategories =>
        /\ {Summaries[k].name : k \in 1..Len(Summaries)} = {catalog[i].category : i \in 1..Len(catalog)}
        /\ \A k, l \in 1..Len(Summaries) : k # l => Summaries[k].name # Summaries[l].name
        /\ \A k, l \in 1..Len(Summaries) : k < l => FirstSeen(Summaries[k].name) < FirstSeen(Summaries[l].name)
        /\ \A k \in 1..Len(Summaries) :
              /\ Summaries[k].count >= 1
              /\ Summaries[k].count = Cardinality({i \in 1..Len(catalog) : catalog[i].category = Summaries[k].name})
        /\ sumCounts(Summaries) = Len(catalog)

\* a catalog in which a Cards record stands between Buttons records was summarized
\* as Buttons, then Cards
CategoriesOnceInFirstSeenOrderWitness ==
    /\ Len(catalog) >= 3
    /\ catalog[1].category = <<"B","u","t","t","o","n","s">>
    /\ catalog[2].category = <<"C","a","r","d","s">>
    /\ catalog[3].category = <<"B","u","t","t","o","n","s">>
    /\ Len(Summaries) = 2
    /\ Summaries[1].name = <<"B","u","t","t","o","n","s">> /\ Summaries[1].count >= 2
    /\ Summaries[2].name = <<"C","a","r","d","s">>

-----------------------------------------------------------------------------
(* loadComponentsFromGitHub request by request.  The crawl is sequential:  *)
(* it is suspended on one axios.get at a time, which the remote side       *)
(* answers, fails, or (for a request in `hung`) never settles: no request  *)
(* is given a timeout.  `frames` is the stack of activations of            *)
(* fetchComponentsFromDirectory, each with its path, the index i of the    *)
(* item its loop is at (0 while the listing is awaited) and its local      *)
(* `components` (acc).                                                     *)

\* requests of one crawl that fail
MaxFailures == 2

Listing(path) == [kind |-> "listing", path |-> path]
Download(path) == [kind |-> "download", path |-> path]

\* the activation on top of the stack
top == frames[Len(frames)]

\* fetchComponentsFromDirectory(path) up to its `await axios.get`, called with
\* the activations `below` suspended
callDirectory(below, path) ==
    /\ frames' = Append(below, [path |-> path, i |-> 0, acc |-> <<>>])
    /\ awaiting' = Listing(path)
    /\ rootScans' = IF path = "" THEN rootScans + 1 ELSE rootScans

\* loadComponentsFromGitHub after the iteration for searchPaths[searchIdx], with
\* `found` its `components`: the next iteration, or lines 552-557
afterSearchPath(found) ==
    /\ components' = found
    /\ IF searchIdx < Len(searchPaths)
       THEN /\ searchIdx' = searchIdx + 1
            /\ callDirectory(<<>>, searchPaths[searchIdx + 1])
            /\ crawlPc' = crawlPc
       ELSE IF Len(found) = 0
       THEN /\ callDirectory(<<>>, "")
            /\ crawlPc' = "root"
            /\ searchIdx' = searchIdx
       ELSE /\ crawlPc' = "returned"
            /\ frames' = <<>>
            /\ awaiting' = NoRequest
            /\ UNCHANGED <<searchIdx, rootScans>>

\* the loop of the activation below the top goes on to its next item, having
\* pushed `pushed`
resumeCaller(pushed) ==
    /\ frames' = [SubSeq(frames, 1, Len(frames) - 1) EXCEPT
                     ![Len(frames) - 1].acc = @ \o pushed,
                     ![Len(frames) - 1].i = @ + 1]
    /\ awaiting' = NoRequest
    /\ UNCHANGED <<crawlPc, components, searchIdx, rootScans>>

\* the loop of the top activation goes on to its next item, having pushed `pushed`
nextItem(pushed) ==
    /\ frames' = [frames EXCEPT ![Len(frames)].acc = @ \o pushed, ![Len(frames)].i = @ + 1]
    /\ awaiting' = NoRequest
    /\ UNCHANGED <<crawlPc, components, searchIdx, rootScans>>

\* history: the awaited request is recorded as failed, in the phase it was made in
requestFailed ==
    /\ failed1' = IF crawlPc = "searching" THEN failed1 \cup {awaiting.path} ELSE failed1
    /\ failed2' = IF crawlPc = "root" THEN failed2 \cup {awaiting.path} ELSE failed2

\* lines 535-543: the first iteration of the loop over searchPaths
StartCrawl ==
    /\ crawlPc = "start"
    /\ crawlPc' = "searching"
    /\ searchIdx' = 1
    /\ callDirectory(<<>>, searchPaths[1])
    /\ UNCHANGED <<components, hung, failures, failed1, failed2>>
    /\ UNCHANGED <<cacheVars, searchVars, extractVars, toolVars>>

\* the listing the crawl awaits arrives: line 578
ListingArrives ==
    /\ awaiting.kind = "listing"
    /\ awaiting.path \notin hung
    /\ awaiting.path \in DOMAIN Remote
    /\ frames' = [frames EXCEPT ![Len(frames)].i = 1]
    /\ awaiting' = NoRequest
    /\ UNCHANGED <<crawlPc, components, searchIdx, rootScans, hung, failures, failed1, failed2>>
    /\ UNCHANGED <<cacheVars, searchVars, extractVars, toolVars>>

\* the listing the crawl awaits fails: fetchComponentsFromDirectory throws, into the
\* catch of line 585, that of line 545, or that of line 558
ListingFails ==
    /\ awaiting.kind = "listing"
    /\ awaiting.path \notin hung
    /\ failures < MaxFailures
    /\ failures' = failures + 1
    /\ IF Len(frames) > 1 THEN resumeCaller(<<>>)
       ELSE IF crawlPc = "searching" THEN afterSearchPath(components)
       ELSE /\ crawlPc' = "returned"
            /\ components' = <<>>
            /\ frames' = <<>>
            /\ awaiting' = NoRequest
            /\ UNCHANGED <<searchIdx, rootScans>>
    /\ requestFailed
    /\ UNCHANGED hung
    /\ UNCHANGED <<cacheVars, searchVars, extractVars, toolVars>>

\* one iteration of `for (const item of response.data)` up to its await or `continue`
VisitItem ==
    /\ awaiting = NoRequest
    /\ frames # <<>>
    /\ top.i >= 1 /\ top.i <= Len(Remote[top.path])
    /\ LET item == Remote[top.path][top.i]
       IN  IF item.type = "dir"
           THEN /\ callDirectory(frames, item.path)
                /\ UNCHANGED <<crawlPc, components, searchIdx>>
           ELSE IF item.type # "file" \/ skipFile(item.name) \/ item.download_url = "null"
           THEN nextItem(<<>>)
           ELSE /\ awaiting' = Download(item.path)
                /\ UNCHANGED <<frames, crawlPc, components, searchIdx, rootScans>>
    /\ UNCHANGED <<hung, failures, failed1, failed2>>
    /\ UNCHANGED <<cacheVars, searchVars, extractVars, toolVars>>

\* the download the crawl awaits arrives: lines 635-648 and 612-614
DownloadArrives ==
    /\ awaiting.kind = "download"
    /\ awaiting.path \notin hung
    /\ nextItem(fetchComponentMetadata(Remote[top.path][top.i], {}).value)
    /\ UNCHANGED <<hung, failures, failed1, failed2>>
    /\ UNCHANGED <<cacheVars, searchVars, extractVars, toolVars>>

\* the download the crawl awaits fails: the catch of line 615
DownloadFails ==
    /\ awaiting.kind = "download"
    /\ awaiting.path \notin hung
    /\ failures < MaxFailures
    /\ failures' = failures + 1
    /\ nextItem(<<>>)
    /\ requestFailed
    /\ UNCHANGED hung
    /\ UNCHANGED <<cacheVars, searchVars, extractVars, toolVars>>

\* `return components` of fetchComponentsFromDirectory, line 620, and what its
\* caller does with the result (lines 584, 544, 554-557)
ReturnDirectory ==
    /\ awaiting = NoRequest
    /\ frames # <<>>
    /\ top.i > Len(Remote[top.path])
    /\ IF Len(frames) > 1 THEN resumeCaller(top.acc)
       ELSE IF crawlPc = "searching" THEN afterSearchPath(components \o top.acc)
       ELSE /\ crawlPc' = "returned"
            /\ components' = components \o top.acc
            /\ frames' = <<>>
            /\ awaiting' = NoRequest
            /\ UNCHANGED <<searchIdx, rootScans>>
    /\ UNCHANGED <<hung, failures, failed1, failed2>>
    /\ UNCHANGED <<cacheVars, searchVars, extractVars, toolVars>>

StepNext ==
    \/ StartCrawl
    \/ ListingArrives
    \/ ListingFails
    \/ VisitItem
    \/ DownloadArrives
    \/ DownloadFails
    \/ ReturnDirectory

\* at most one request of the crawl is never answered
StepSpecInit ==
    /\ CacheInit
    /\ CrawlInit
    /\ SearchInit
    /\ ExtractInit
    /\ ToolInit
    /\ frames = <<>>
    /\ awaiting = NoRequest
    /\ searchIdx = 0
    /\ hung \in {{}} \cup {{p} : p \in Requests1 \cup Requests2}
    /\ failures = 0

\* every continuation that can run does run, and every request that is not in
\* `hung` is eventually answered or fails
SpecStep == StepSpecInit /\ [][StepNext]_vars /\ WF_vars(StepNext)

-----------------------------------------------------------------------------
(* Properties of the crawl, request by request.                            *)

\* C17: with one request that never responds the crawl still completes.
CrawlCompletesDespiteHungRequest == <>(crawlPc = "returned")

=============================================================================
